---- MODULE Spec2Model ----
(***************************************************************************)
(* ProofOfWork: the backend API server (backend/server.js, Express over    *)
(* SQLite) and the on-chain contract (contracts/ProofOfWork.sol).          *)
(*                                                                         *)
(* The two programs share no state (the backend never calls the contract), *)
(* so a behaviour follows one of them; `sys` says which.                   *)
(*                                                                         *)
(* Scales: backend reputation_score is kept in tenths (50.0 = 500), the    *)
(* contract's reputationScore is the contract's own scale (50.00 = 5000),  *)
(* anomaly scores are hundredths (0.65 = 65).                              *)
(***************************************************************************)
EXTENDS Integers, Sequences, FiniteSets, TLC

VARIABLES
    sys,               \* "backend" or "contract": the program this behaviour runs
    \* ---- backend: the tables of pow.db and the last request / response
    workers,           \* table workers, row i has id i
    work_claims,       \* table work_claims, row i has id i
    verifications,     \* table verifications: rows per (claim_id, verifier_id)
    anomaly_flags,     \* table anomaly_flags, in insertion order
    credit_reports,    \* table credit_reports, in insertion order
    clock,             \* the server's clock, in seconds
    res,               \* the response to the last request
    handlers,          \* POST /api/verify requests in progress (SpecRace)
    \* ---- contract: the storage of ProofOfWork.sol and the last call
    c_workers,         \* mapping workers
    registeredWorkers, \* mapping registeredWorkers, as the set mapped to true
    claims,            \* mapping claims, claimId |-> WorkClaim
    workerClaims,      \* mapping workerClaims, address |-> array of claimIds
    hasVerified,       \* mapping hasVerified, as the set of <<claimId, address>>
    totalWorkers,
    totalVerifiedClaims,
    now                \* block.timestamp of the block being mined

backendVars == <<workers, work_claims, verifications, anomaly_flags, credit_reports,
                 clock, res, handlers>>
contractVars == <<c_workers, registeredWorkers, claims, workerClaims, hasVerified,
                  totalWorkers, totalVerifiedClaims, now>>
vars == <<sys, backendVars, contractVars>>

(***************************************************************************)
(* Bounds of the model.                                                    *)
(***************************************************************************)
MaxWorkers == 4        \* backend: registrations explored
MaxClaims == 2         \* backend: claims explored
MaxDate == 2           \* backend: claim dates are days 1..MaxDate
MaxReq == 2            \* backend: POST /api/verify requests in progress at once
MaxReports == 1        \* backend: credit reports explored

WorkerIds == 1..MaxWorkers
ClaimIds == 1..MaxClaims
Dates == 1..MaxDate

\* Request inputs.  An optional JSON field is <<>> when absent, <<v>> when present.
HoursInputs == {0, 8, 17}
DateInputs == {<<>>} \cup {<<d>> : d \in Dates}
GpsInputs == {<<>>, <<500>>, <<501>>}
Tokens == {<<>>} \cup {<<w>> : w \in WorkerIds}

\* The bodies of POST /api/claims explored: <<hours, task, date>>.  A body whose
\* fields fail the validation is refused before its date is read.
SubmitBodies(hoursInputs) ==
    {b \in hoursInputs \X BOOLEAN \X DateInputs :
        (b[1] = 0 \/ b[1] > 16 \/ ~b[2]) => b[3] = <<>>}

(***************************************************************************)
(* Backend: schema defaults and helpers.                                   *)
(***************************************************************************)
\* A location is the words of the text given at registration.
Kericho == <<"Kericho", "KE">>
Locations == {Kericho, <<"Nairobi", "KE">>, <<"Oromia", "ET">>}

NewWorkerAt(location) ==
    [location |-> location, reputation_score |-> 500, verification_depth |-> 0,
     total_days_worked |-> 0]

NewWorker == NewWorkerAt(Kericho)

NoVerifications == [p \in ClaimIds \X WorkerIds |-> 0]

NoSummary == [total |-> 0, high |-> 0, medium |-> 0, low |-> 0]

NoRes ==
    [status |-> 0, error |-> "", claim_sealed |-> FALSE, verifications_so_far |-> 0,
     flags |-> <<>>, summary |-> NoSummary, scanned_at |-> <<>>]

\* A request slot with no request in it; pc is the statement a request is at.
Idle == [pc |-> "idle", claim_id |-> 0, verifierId |-> 0, gps |-> <<>>, worker_id |-> 0]

Reply(status, error) == [NoRes EXCEPT !.status = status, !.error = error]

RECURSIVE SumOver(_, _)
SumOver(S, f) ==
    IF S = {} THEN 0
    ELSE LET x == CHOOSE y \in S : TRUE IN f[x] + SumOver(S \ {x}, f)

\* verifyJWT: a request without a valid token is answered 401; tokens are only
\* issued by register, for the id of the row it inserted.
verifyJWT(token) == token # <<>> /\ token[1] \in 1..Len(workers)

\* function calcAnomalyScore(workerId, hours, date), in hundredths.
Recent(wc, workerId, date) ==
    {i \in 1..Len(wc) : wc[i].worker_id = workerId /\ wc[i].date >= date - 7}

\* RecentLimit with the rows ordered by hours.
RecentLimit_ByHours(wc, workerId, date) ==
    LET R == Recent(wc, workerId, date)
        Before(i, j) == wc[i].hours > wc[j].hours \/ (wc[i].hours = wc[j].hours /\ i < j)
    IN {j \in R : Cardinality({i \in R : Before(i, j)}) < 10}

\* ORDER BY date DESC LIMIT 10: the rows no more than 9 others precede.
RecentLimit(wc, workerId, date) ==
    LET R == Recent(wc, workerId, date)
        Before(i, j) == wc[i].date > wc[j].date \/ (wc[i].date = wc[j].date /\ i < j)
    IN {j \in R : Cardinality({i \in R : Before(i, j)}) < 10}

SameHours(wc, workerId, hours, date) ==
    Cardinality({i \in 1..Len(wc) : wc[i].worker_id = workerId /\ wc[i].hours = hours
                                    /\ wc[i].date >= date - 14})

Min(a, b) == IF a < b THEN a ELSE b

calcAnomalyScore(wc, workerId, hours, date) ==
    LET recent == RecentLimit(wc, workerId, date)
        n == Cardinality(recent)
        total == SumOver(recent, [i \in recent |-> wc[i].hours])
        \* hours > avgHours * 1.8 with avgHours = total / n (or hours when n = 0)
        deviates == n >= 3 /\ hours * n * 10 > total * 18
        s1 == IF hours > 14 THEN 40 ELSE 0
        s2 == IF hours > 16 THEN 35 ELSE 0
        s3 == IF deviates THEN 25 ELSE 0
        s4 == IF SameHours(wc, workerId, hours, date) >= 5 THEN 20 ELSE 0
    IN Min(s1 + s2 + s3 + s4, 100)

(***************************************************************************)
(* Backend: the statements of the handlers, as functions of the tables.    *)
(***************************************************************************)
NULL == <<>>

\* if (!hours || !task) ... if (hours > 16) ...: the error, or "" when both pass
SubmitValidation(hours, task) ==
    IF hours = 0 \/ ~task THEN "Missing fields"
    ELSE IF hours > 16 THEN "Hours > 16 automatically rejected"
    ELSE ""

\* const claimDate = date || new Date().toISOString().slice(0, 10)
ClaimDate(date, today) == IF date = <<>> THEN today ELSE date[1]

\* Existing with the claim id column where worker_id is meant.
Existing_WrongColumn(wc, workerId, claimDate) ==
    \E i \in 1..Len(wc) : i = workerId /\ wc[i].date = claimDate

\* SELECT id FROM work_claims WHERE worker_id = ? AND date = ?
Existing(wc, workerId, claimDate) ==
    \E i \in 1..Len(wc) : wc[i].worker_id = workerId /\ wc[i].date = claimDate

\* InsertClaim with the score taken after the row is in the table.
InsertClaim_Rescored(wc, workerId, claimDate, hours, anomalyScore) ==
    LET row == [worker_id |-> workerId, date |-> claimDate, hours |-> hours,
                status |-> "pending", ipfs_hash |-> <<>>, tx_hash |-> <<>>,
                block_number |-> <<>>, anomaly_score |-> anomalyScore,
                created_at |-> clock]
    IN Append(wc, [row EXCEPT !.anomaly_score =
                      calcAnomalyScore(Append(wc, row), workerId, hours, claimDate)])

\* INSERT INTO work_claims (...): status, ipfs_hash, tx_hash, block_number default
InsertClaim(wc, workerId, claimDate, hours, anomalyScore) ==
    Append(wc, [worker_id |-> workerId, date |-> claimDate, hours |-> hours,
                status |-> "pending", ipfs_hash |-> NULL, tx_hash |-> NULL,
                block_number |-> NULL, anomaly_score |-> anomalyScore,
                created_at |-> clock])

\* AutoFlag with 0.65 itself flagged.
AutoFlag_AtLeast(flags, id, anomalyScore) ==
    IF anomalyScore >= 65
    THEN Append(flags, [flagged_entity |-> id, entity_type |-> "claim",
                        anomaly_type |-> "suspicious_hours", risk_score |-> anomalyScore])
    ELSE flags

\* if (anomalyScore > 0.65) INSERT INTO anomaly_flags ...
AutoFlag(flags, id, anomalyScore) ==
    IF anomalyScore > 65
    THEN Append(flags, [flagged_entity |-> id, entity_type |-> "claim",
                        anomaly_type |-> "suspicious_hours", risk_score |-> anomalyScore])
    ELSE flags

\* Dup with the duplicate found only from the second row on.
Dup_SecondRow(v, claim_id, verifierId) == v[<<claim_id, verifierId>>] > 1

\* SELECT id FROM verifications WHERE claim_id = ? AND verifier_id = ?
Dup(v, claim_id, verifierId) == v[<<claim_id, verifierId>>] > 0

\* GpsTooFar with 500 m itself refused.
GpsTooFar_Inclusive(gps) == gps # <<>> /\ gps[1] # 0 /\ gps[1] >= 500

\* if (gps_distance_m && gps_distance_m > 500)
GpsTooFar(gps) == gps # <<>> /\ gps[1] # 0 /\ gps[1] > 500

\* INSERT INTO verifications (id, claim_id, verifier_id, signature, gps_distance_m):
\* the row id is random and is_valid defaults to 1; no statement reads the
\* signature or the distance back, so a row is its (claim_id, verifier_id).
InsertVerification(v, claim_id, verifierId) ==
    [v EXCEPT ![<<claim_id, verifierId>>] = @ + 1]

\* IncDepth with the counter raised by two.
IncDepth_Twice(w, verifierId) ==
    [w EXCEPT ![verifierId].verification_depth = @ + 2]

\* UPDATE workers SET verification_depth = verification_depth + 1 WHERE id = ?
IncDepth(w, verifierId) ==
    [w EXCEPT ![verifierId].verification_depth = @ + 1]

\* SELECT COUNT(*) FROM verifications WHERE claim_id = ? AND is_valid = 1
VerifCount(v, claim_id) ==
    LET rows == {p \in DOMAIN v : p[1] = claim_id}
    IN SumOver(rows, [p \in rows |-> v[p]])

\* QuorumReached with the quorum one short.
QuorumReached_Two(verifCount) == verifCount >= 2

\* if (verifCount >= 3)
QuorumReached(verifCount) == verifCount >= 3

\* UPDATE work_claims SET status = 'verified', tx_hash, ipfs_hash, block_number.
\* genTxHash, genIpfsHash and Math.random give values nothing reads back; one
\* value stands for each.
SealClaim(wc, claim_id) ==
    [wc EXCEPT ![claim_id].status = "verified", ![claim_id].tx_hash = <<"0x">>,
               ![claim_id].ipfs_hash = <<"Qm">>, ![claim_id].block_number = <<48000>>]

\* SealWorker without the day counted.
SealWorker_ReputationOnly(w, ownerId) ==
    [w EXCEPT ![ownerId].reputation_score = Min(1000, @ + 5)]

\* UPDATE workers SET total_days_worked = total_days_worked + 1,
\*   reputation_score = MIN(100, reputation_score + 0.5) WHERE id = ?
SealWorker(w, ownerId) ==
    [w EXCEPT ![ownerId].total_days_worked = @ + 1,
              ![ownerId].reputation_score = Min(1000, @ + 5)]

(***************************************************************************)
(* Backend: one action per request, the handler run to completion.  The    *)
(* early returns of a handler are its refusal: the reply of the first      *)
(* check that fails, NoRes when the request passes them all.               *)
(***************************************************************************)
backendTables == <<workers, work_claims, verifications, anomaly_flags, credit_reports>>

\* app.post('/api/workers/register'), while the table holds fewer than `limit`
\* workers; name and sector are stored and never read
RegisterWithin(limit, complete, location) ==
    /\ sys = "backend"
    /\ IF ~complete
       THEN /\ res' = Reply(400, "Missing fields")
            /\ UNCHANGED backendTables
       ELSE /\ Len(workers) < limit
            /\ workers' = Append(workers, NewWorkerAt(location))
            /\ res' = Reply(200, "")
            /\ UNCHANGED <<work_claims, verifications, anomaly_flags, credit_reports>>
    /\ UNCHANGED <<clock, handlers, contractVars, sys>>

\* app.post('/api/workers/register'), while the table holds fewer than MaxWorkers
RegisterAt(complete, location) == RegisterWithin(MaxWorkers, complete, location)

\* app.post('/api/workers/register'), the workers all of one place
Register(complete) == RegisterAt(complete, Kericho)

\* app.post('/api/claims'): verifyJWT and the returns before the INSERT
SubmitRefusal(token, hours, task, date, today) ==
    IF ~verifyJWT(token) THEN Reply(401, "No token")
    ELSE IF SubmitValidation(hours, task) # "" THEN Reply(400, SubmitValidation(hours, task))
    ELSE IF Existing(work_claims, token[1], ClaimDate(date, today))
         THEN Reply(409, "Claim already submitted for this date")
    ELSE NoRes

\* app.post('/api/claims'), while the table holds fewer than `limit` claims
SubmitWithin(limit, token, hours, task, date, today) ==
    /\ sys = "backend"
    /\ IF SubmitRefusal(token, hours, task, date, today) # NoRes
       THEN /\ res' = SubmitRefusal(token, hours, task, date, today)
            /\ UNCHANGED backendTables
       ELSE LET workerId == token[1]
                claimDate == ClaimDate(date, today)
                anomalyScore == calcAnomalyScore(work_claims, workerId, hours, claimDate)
                id == Len(work_claims) + 1
            IN /\ Len(work_claims) < limit
               /\ work_claims' = InsertClaim(work_claims, workerId, claimDate,
                                             hours, anomalyScore)
               /\ anomaly_flags' = AutoFlag(anomaly_flags, id, anomalyScore)
               /\ res' = Reply(200, "")
               /\ UNCHANGED <<workers, verifications, credit_reports>>
    /\ UNCHANGED <<clock, handlers, contractVars, sys>>

\* app.post('/api/claims')
Submit(token, hours, task, date, today) ==
    SubmitWithin(MaxClaims, token, hours, task, date, today)

\* ClaimRefusal without the check of the claim's owner.
ClaimRefusal_NoOwnerCheck(claim_id, verifierId) ==
    IF claim_id \notin 1..Len(work_claims) THEN Reply(404, "Claim not found")
    ELSE IF work_claims[claim_id].status = "verified"
         THEN Reply(400, "Claim already fully verified")
    ELSE NoRes

\* ClaimRefusal without the return on a claim already 'verified'.
ClaimRefusal_NoSealedCheck(claim_id, verifierId) ==
    IF claim_id \notin 1..Len(work_claims) THEN Reply(404, "Claim not found")
    ELSE IF work_claims[claim_id].worker_id = verifierId
         THEN Reply(400, "Cannot verify own claim")
    ELSE NoRes

\* app.post('/api/verify'): the returns on the claim row read first
ClaimRefusal(claim_id, verifierId) ==
    IF claim_id \notin 1..Len(work_claims) THEN Reply(404, "Claim not found")
    ELSE IF work_claims[claim_id].worker_id = verifierId
         THEN Reply(400, "Cannot verify own claim")
    ELSE IF work_claims[claim_id].status = "verified"
         THEN Reply(400, "Claim already fully verified")
    ELSE NoRes

\* app.post('/api/verify'): the returns after the duplicate SELECT
DupRefusal(claim_id, verifierId, gps) ==
    IF Dup(verifications, claim_id, verifierId)
    THEN Reply(409, "Already verified this claim")
    ELSE IF GpsTooFar(gps) THEN Reply(400, "GPS distance too large")
    ELSE NoRes

\* app.post('/api/verify'): verifyJWT and the returns before the INSERT
VerifyRefusal(token, claim_id, gps) ==
    IF ~verifyJWT(token) THEN Reply(401, "No token")
    ELSE IF ClaimRefusal(claim_id, token[1]) # NoRes THEN ClaimRefusal(claim_id, token[1])
    ELSE DupRefusal(claim_id, token[1], gps)

\* app.post('/api/verify')
Verify(token, claim_id, gps) ==
    /\ sys = "backend"
    /\ IF VerifyRefusal(token, claim_id, gps) # NoRes
       THEN /\ res' = VerifyRefusal(token, claim_id, gps)
            /\ UNCHANGED backendTables
       ELSE LET verifierId == token[1]
                claim == work_claims[claim_id]
                v1 == InsertVerification(verifications, claim_id, verifierId)
                w1 == IncDepth(workers, verifierId)
                verifCount == VerifCount(v1, claim_id)
            IN /\ verifications' = v1
               /\ IF QuorumReached(verifCount)
                  THEN /\ work_claims' = SealClaim(work_claims, claim_id)
                       /\ workers' = SealWorker(w1, claim.worker_id)
                       /\ res' = [Reply(200, "") EXCEPT !.claim_sealed = TRUE]
                  ELSE /\ workers' = w1
                       /\ res' = [Reply(200, "") EXCEPT !.verifications_so_far = verifCount]
                       /\ UNCHANGED work_claims
               /\ UNCHANGED <<anomaly_flags, credit_reports>>
    /\ UNCHANGED <<clock, handlers, contractVars, sys>>

\* function calcCreditScore(months, peers, hrs), with peers = peerSum / n and
\* hrs = 5 * hourSum / n the averages over the n verified claims:
\* Math.min(850, Math.round(months * 4.5 + Math.min(peers, 10) * 15
\*                          + Math.min(hrs, 40) * 2.5 + 300)),
\* Math.round(x) being floor(x + 1/2), computed over the common denominator 2n.
calcCreditScore(months, peerSum, hourSum, n) ==
    Min(850, (9 * n * months + 30 * Min(peerSum, 10 * n)
              + 5 * Min(5 * hourSum, 40 * n) + 600 * n + n) \div (2 * n))

\* SELECT * FROM work_claims WHERE worker_id = ? AND status = 'verified'
VerifiedClaims(wc, workerId) ==
    {c \in 1..Len(wc) : wc[c].worker_id = workerId /\ wc[c].status = "verified"}

\* app.post('/api/finance/credit'): the row inserted into credit_reports.  The
\* averages are kept as <<sum, count>>.
CreditReport(workerId) ==
    LET verifiedClaims == VerifiedClaims(work_claims, workerId)
        n == Cardinality(verifiedClaims)
        \* Math.max(1, Math.round(worker.total_days_worked / 22))
        rounded == (2 * workers[workerId].total_days_worked + 22) \div 44
        months == IF rounded > 1 THEN rounded ELSE 1
        hourSum == SumOver(verifiedClaims, [c \in verifiedClaims |-> work_claims[c].hours])
        peerSum == SumOver(verifiedClaims,
                           [c \in verifiedClaims |-> VerifCount(verifications, c)])
        score == calcCreditScore(months, peerSum, hourSum, n)
    IN [worker_id |-> workerId, score |-> score,
        tier |-> IF score > 720 THEN "PRIME"
                 ELSE IF score > 580 THEN "STANDARD" ELSE "EMERGING",
        \* Math.round(score * months * 2.8)
        max_loan_usd |-> (28 * score * months + 5) \div 10,
        months_on_chain |-> months,
        avg_peers |-> <<peerSum, n>>,
        avg_weekly_hours |-> <<5 * hourSum, n>>]

\* app.post('/api/finance/credit'): verifyJWT and the returns before the INSERT.
\* A token names a row of workers and rows are never deleted, so the 404 of a
\* missing worker row is not among them.
CreditRefusal(token) ==
    IF ~verifyJWT(token) THEN Reply(401, "No token")
    ELSE IF VerifiedClaims(work_claims, token[1]) = {}
         THEN Reply(400, "No verified claims on chain yet")
    ELSE NoRes

\* Credit with the report inserted before the check of the verified claims.
Credit_InsertFirst(token) ==
    /\ sys = "backend"
    /\ verifyJWT(token)
    /\ Len(credit_reports) < MaxReports
    /\ credit_reports' = Append(credit_reports,
                                [worker_id |-> token[1], score |-> 300, tier |-> "EMERGING",
                                 max_loan_usd |-> 840, months_on_chain |-> 1,
                                 avg_peers |-> <<0, 1>>, avg_weekly_hours |-> <<0, 1>>])
    /\ res' = CreditRefusal(token)
    /\ UNCHANGED <<workers, work_claims, verifications, anomaly_flags>>
    /\ UNCHANGED <<clock, handlers, contractVars, sys>>

\* app.post('/api/finance/credit')
Credit(token) ==
    /\ sys = "backend"
    /\ IF CreditRefusal(token) # NoRes
       THEN /\ res' = CreditRefusal(token)
            /\ UNCHANGED backendTables
       ELSE /\ Len(credit_reports) < MaxReports
            /\ credit_reports' = Append(credit_reports, CreditReport(token[1]))
            /\ res' = Reply(200, "")
            /\ UNCHANGED <<workers, work_claims, verifications, anomaly_flags>>
    /\ UNCHANGED <<clock, handlers, contractVars, sys>>

(***************************************************************************)
(* Backend: POST /api/ai/scan.  A flag of the reply is its type, risk,     *)
(* score (hundredths) and entity; n is the number its label or detail      *)
(* carries (hours, verifications, claims), 0 when it carries none.  Rows   *)
(* of a query without ORDER BY come in the order of the table.             *)
(***************************************************************************)
\* The region filters explored: none, two words of locations, and a quote.
RegionInputs == {<<>>, <<"KE">>, <<"Kericho">>, <<"'">>}

RECURSIVE Ascending(_)
Ascending(S) ==
    IF S = {} THEN <<>>
    ELSE LET m == CHOOSE x \in S : \A y \in S : x <= y
         IN <<m>> \o Ascending(S \ {m})

\* The text of the first query is built by concatenation; a region with a quote
\* in it leaves a statement that db.prepare refuses.
Malformed(region) == region # <<>> /\ region[1] = "'"

\* w.location LIKE '%region%', on the words of the location
LocationLike(location, region) == \E i \in 1..Len(location) : location[i] = region

\* 1. WHERE wc.hours > 16 [AND w.location LIKE '%region%']
ImpossibleHours(region) ==
    {c \in 1..Len(work_claims) :
        /\ work_claims[c].hours > 16
        /\ region # <<>> =>
              LocationLike(workers[work_claims[c].worker_id].location, region[1])}

ImpossibleFlags(region) ==
    LET ids == Ascending(ImpossibleHours(region))
    IN [k \in 1..Len(ids) |->
          [type |-> "impossible_hours", risk |-> "high", score |-> 92,
           entity |-> ids[k], n |-> work_claims[ids[k]].hours]]

\* 2. SELECT DISTINCT verifier_id FROM verifications
Verifiers == {p[2] : p \in {q \in DOMAIN verifications : verifications[q] > 0}}

\* SELECT DISTINCT v.claim_id, wc.worker_id FROM verifications v JOIN work_claims wc
\* ON v.claim_id = wc.id WHERE v.verifier_id = ?
VerifiedBy(verifier_id) ==
    {<<q[1], work_claims[q[1]].worker_id>> :
        q \in {p \in DOMAIN verifications :
                  p[2] = verifier_id /\ verifications[p] > 0 /\ p[1] <= Len(work_claims)}}

\* IsClique without the test that the claims are of one owner.
IsClique_AnyOwner(verifiedBy) == Cardinality(verifiedBy) >= 5

\* if (uniqueWorkers.size === 1 && verifiedBy.length >= 5)
IsClique(verifiedBy) ==
    Cardinality({x[2] : x \in verifiedBy}) = 1 /\ Cardinality(verifiedBy) >= 5

CliqueFlags ==
    LET ids == Ascending({v \in Verifiers : IsClique(VerifiedBy(v))})
    IN [k \in 1..Len(ids) |->
          [type |-> "clique", risk |-> "high", score |-> 87,
           entity |-> ids[k], n |-> Cardinality(VerifiedBy(ids[k]))]]

\* 3. strftime('%Y-%m-%dT%H:%M', created_at): the minute a second falls in
Minute(created_at) == created_at \div 60

\* GROUP BY minute HAVING cnt >= 4
ClusterCount(minute) ==
    Cardinality({c \in 1..Len(work_claims) : Minute(work_claims[c].created_at) = minute})

Clusters ==
    {m \in {Minute(work_claims[c].created_at) : c \in 1..Len(work_claims)} :
        ClusterCount(m) >= 4}

ClusterFlags ==
    LET minutes == Ascending(Clusters)
    IN [k \in 1..Len(minutes) |->
          [type |-> "timestamp_cluster", risk |-> "medium", score |-> 71,
           entity |-> minutes[k], n |-> ClusterCount(minutes[k])]]

\* 4. SELECT * FROM anomaly_flags WHERE resolved = 0 ORDER BY risk_score DESC
\* LIMIT 10; no statement of the server sets resolved, rows of one score keep
\* the order of the table.
RECURSIVE ByRisk(_, _)
ByRisk(flags, S) ==
    IF S = {} THEN <<>>
    ELSE LET f == CHOOSE i \in S : \A j \in S :
                     \/ flags[i].risk_score > flags[j].risk_score
                     \/ flags[i].risk_score = flags[j].risk_score /\ i <= j
         IN <<f>> \o ByRisk(flags, S \ {f})

DbFlags(flags) == SubSeq(ByRisk(flags, 1..Len(flags)), 1, Min(10, Len(flags)))

\* risk: f.risk_score > 0.7 ? 'high' : 'medium'
StoredFlags ==
    LET ids == DbFlags(anomaly_flags)
    IN [k \in 1..Len(ids) |->
          [type |-> anomaly_flags[ids[k]].anomaly_type,
           risk |-> IF anomaly_flags[ids[k]].risk_score > 70 THEN "high" ELSE "medium",
           score |-> anomaly_flags[ids[k]].risk_score,
           entity |-> anomaly_flags[ids[k]].flagged_entity, n |-> 0]]

ScanFlags(region) == ImpossibleFlags(region) \o CliqueFlags \o ClusterFlags \o StoredFlags

\* summary: { total, high, medium, low: flags.length - high - medium }
Summary(flags) ==
    LET high == Cardinality({k \in 1..Len(flags) : flags[k].risk = "high"})
        medium == Cardinality({k \in 1..Len(flags) : flags[k].risk = "medium"})
    IN [total |-> Len(flags), high |-> high, medium |-> medium,
        low |-> Len(flags) - high - medium]

\* Scan with every returned flag also stored in anomaly_flags.
Scan_Persisting(region) ==
    /\ sys = "backend"
    /\ IF Malformed(region)
       THEN res' = Reply(500, "SqliteError") /\ UNCHANGED anomaly_flags
       ELSE /\ res' = [Reply(200, "") EXCEPT !.flags = ScanFlags(region),
                                             !.summary = Summary(ScanFlags(region)),
                                             !.scanned_at = <<clock>>]
            /\ anomaly_flags' =
                  anomaly_flags \o
                  [k \in 1..Len(ScanFlags(region)) |->
                      [flagged_entity |-> ScanFlags(region)[k].entity,
                       entity_type |-> "claim",
                       anomaly_type |-> ScanFlags(region)[k].type,
                       risk_score |-> ScanFlags(region)[k].score]]
    /\ UNCHANGED <<workers, work_claims, verifications, credit_reports>>
    /\ UNCHANGED <<clock, handlers, contractVars, sys>>

\* app.post('/api/ai/scan'): no token is asked for
Scan(region) ==
    /\ sys = "backend"
    /\ IF Malformed(region)
       THEN res' = Reply(500, "SqliteError")
       ELSE res' = [Reply(200, "") EXCEPT !.flags = ScanFlags(region),
                                         !.summary = Summary(ScanFlags(region)),
                                         !.scanned_at = <<clock>>]
    /\ UNCHANGED backendTables
    /\ UNCHANGED <<clock, handlers, contractVars, sys>>

\* The clock moves on by `step` seconds, up to `limit`.
Tick(step, limit) ==
    /\ sys = "backend"
    /\ clock + step <= limit
    /\ clock' = clock + step
    /\ UNCHANGED <<backendTables, res, handlers, contractVars, sys>>

(***************************************************************************)
(* Contract ProofOfWork.sol.  A call whose require fails reverts: it       *)
(* leaves the storage as it was, so it is a step that changes nothing and  *)
(* the reason it gives is a function of the storage and the arguments.     *)
(* Of struct Worker the fields the functions below read or write are kept  *)
(* (name, location, sector, registeredAt and isActive are only returned by *)
(* the views).                                                             *)
(***************************************************************************)
REQUIRED_VERIFIERS == 3
MAX_DAILY_HOURS == 160
REP_GAIN_VERIFY == 50
REP_LOSS_FALSE == 500
BASE_REP == 5000
MIN_REP_TO_VERIFY == 1000

MaxAddr == 4           \* contract: addresses 1..MaxAddr send transactions
MaxDay == 1            \* contract: claim dates are days 1..MaxDay
MaxTime == 2           \* contract: block timestamps 1..MaxTime
MaxSubmits == 2        \* contract: successful submitClaim calls explored
MaxSlashes == 1        \* contract: successful slashVerifier calls explored

Addrs == 1..MaxAddr
Days == 1..MaxDay
HoursX10Inputs == {0, 80, 161}

\* constructor(): owner = msg.sender.  The deployer is address 1.
owner == 1

\* claimId = keccak256(abi.encodePacked(msg.sender, date, block.timestamp)):
\* the hash is taken to be injective, so the id is the triple itself.
ClaimIdOf(sender, date, timestamp) == <<sender, date, timestamp>>

\* The claim ids a caller passes: those written so far and one never written.
ClaimIdInputs == DOMAIN claims \cup {ClaimIdOf(owner, 1, 0)}

\* The zero-initialised Worker a mapping returns for an address never written.
ZeroWorker == [reputationScore |-> 0, verifiedDays |-> 0]

\* The zero-initialised WorkClaim of a claimId never written; enum value 0 is Pending.
ZeroClaim == [worker |-> 0, date |-> 0, hours |-> 0, verifiers |-> <<>>,
              status |-> "Pending", ipfsRecord |-> <<>>, sealedAt |-> 0]

ClaimAt(claimId) == IF claimId \in DOMAIN claims THEN claims[claimId] ELSE ZeroClaim

contractStorage == <<c_workers, registeredWorkers, claims, workerClaims, hasVerified,
                     totalWorkers, totalVerifiedClaims>>

\* The first require of registerWorker that fails, "" when none does.
RegisterRevert(sender, nameGiven) ==
    IF sender \in registeredWorkers THEN "Already registered"
    ELSE IF ~nameGiven THEN "Name required"
    ELSE ""

\* function registerWorker(name, location, sector)
registerWorker(sender, nameGiven) ==
    /\ sys = "contract"
    /\ IF RegisterRevert(sender, nameGiven) # ""
       THEN UNCHANGED contractStorage
       ELSE /\ c_workers' = [c_workers EXCEPT ![sender] =
                  [reputationScore |-> BASE_REP, verifiedDays |-> 0]]
            /\ registeredWorkers' = registeredWorkers \cup {sender}
            /\ totalWorkers' = totalWorkers + 1
            /\ UNCHANGED <<claims, workerClaims, hasVerified, totalVerifiedClaims>>
    /\ UNCHANGED <<now, backendVars, sys>>

\* The first require of submitClaim (onlyRegistered included) that fails.
SubmitRevert(sender, date, hoursX10, taskGiven) ==
    IF sender \notin registeredWorkers THEN "Worker not registered"
    ELSE IF ~(hoursX10 > 0 /\ hoursX10 <= MAX_DAILY_HOURS) THEN "Invalid hours"
    ELSE IF ~taskGiven THEN "Task hash required"
    ELSE ""

\* WorkClaim storage claim = claims[claimId]; claim.id = ...; claim.status = Pending:
\* the fields assigned are written, the others keep what the slot held.
WriteClaim(sender, date, hoursX10, claimId) ==
    [ClaimAt(claimId) EXCEPT !.worker = sender, !.date = date, !.hours = hoursX10,
                             !.status = "Pending"]

\* function submitClaim(date, hoursX10, taskHash)
submitClaim(sender, date, hoursX10, taskGiven) ==
    /\ sys = "contract"
    /\ IF SubmitRevert(sender, date, hoursX10, taskGiven) # ""
       THEN UNCHANGED contractStorage
       ELSE LET claimId == ClaimIdOf(sender, date, now)
            IN /\ claims' = [id \in DOMAIN claims \cup {claimId} |->
                               IF id = claimId
                               THEN WriteClaim(sender, date, hoursX10, claimId)
                               ELSE claims[id]]
               /\ workerClaims' = [workerClaims EXCEPT ![sender] = Append(@, claimId)]
               /\ UNCHANGED <<c_workers, registeredWorkers, hasVerified,
                              totalWorkers, totalVerifiedClaims>>
    /\ UNCHANGED <<now, backendVars, sys>>

\* The first require of verifyClaim (onlyRegistered included) that fails.
VerifyRevert_NoReputationCheck(sender, claimId) ==
    IF sender \notin registeredWorkers THEN "Worker not registered"
    ELSE IF ClaimAt(claimId).worker = 0 THEN "Claim not found"
    ELSE IF ClaimAt(claimId).worker = sender THEN "Cannot verify own claim"
    ELSE IF <<claimId, sender>> \in hasVerified THEN "Already verified"
    ELSE IF ClaimAt(claimId).status = "Verified" THEN "Already sealed"
    ELSE IF ClaimAt(claimId).status = "Rejected" THEN "Claim rejected"
    ELSE ""

VerifyRevert(sender, claimId) ==
    IF sender \notin registeredWorkers THEN "Worker not registered"
    ELSE IF ClaimAt(claimId).worker = 0 THEN "Claim not found"
    ELSE IF ClaimAt(claimId).worker = sender THEN "Cannot verify own claim"
    ELSE IF <<claimId, sender>> \in hasVerified THEN "Already verified"
    ELSE IF ClaimAt(claimId).status = "Verified" THEN "Already sealed"
    ELSE IF ClaimAt(claimId).status = "Rejected" THEN "Claim rejected"
    ELSE IF ~(c_workers[sender].reputationScore >= MIN_REP_TO_VERIFY)
         THEN "Reputation too low to verify"
    ELSE ""

\* workers[msg.sender].reputationScore += REP_GAIN_VERIFY
GainReputation(oldRep) == oldRep + REP_GAIN_VERIFY

\* function _sealClaim(claimId): the claim after sealing; ipfsRecord is a hash of
\* (claimId, block.timestamp, block.number), kept as the timestamp it binds.
SealedClaim(claim) ==
    [claim EXCEPT !.status = "Verified", !.sealedAt = now, !.ipfsRecord = <<now>>]

\* function verifyClaim(claimId), _sealClaim included
verifyClaim(sender, claimId) ==
    /\ sys = "contract"
    /\ IF VerifyRevert(sender, claimId) # ""
       THEN UNCHANGED contractStorage
       ELSE LET pushed == [claims[claimId] EXCEPT !.verifiers = Append(@, sender)]
                count == Len(pushed.verifiers)
                gained == [c_workers EXCEPT ![sender].reputationScore = GainReputation(@)]
            IN /\ hasVerified' = hasVerified \cup {<<claimId, sender>>}
               /\ IF count >= REQUIRED_VERIFIERS
                  THEN /\ claims' = [claims EXCEPT ![claimId] = SealedClaim(pushed)]
                       /\ c_workers' = [gained EXCEPT ![pushed.worker].verifiedDays = @ + 1]
                       /\ totalVerifiedClaims' = totalVerifiedClaims + 1
                  ELSE /\ claims' = [claims EXCEPT ![claimId] =
                                        [pushed EXCEPT !.status = "PartiallyVerified"]]
                       /\ c_workers' = gained
                       /\ UNCHANGED totalVerifiedClaims
               /\ UNCHANGED <<registeredWorkers, workerClaims, totalWorkers>>
    /\ UNCHANGED <<now, backendVars, sys>>

\* SlashRevert without the onlyOwner modifier.
SlashRevert_AnyCaller(sender, verifier, claimId) ==
    IF <<claimId, verifier>> \notin hasVerified THEN "Did not verify this claim"
    ELSE ""

\* The first require of slashVerifier (onlyOwner included) that fails.
SlashRevert(sender, verifier, claimId) ==
    IF sender # owner THEN "Not owner"
    ELSE IF <<claimId, verifier>> \notin hasVerified THEN "Did not verify this claim"
    ELSE ""

\* oldRep > REP_LOSS_FALSE ? oldRep - REP_LOSS_FALSE : 0
Slashed(oldRep) == IF oldRep > REP_LOSS_FALSE THEN oldRep - REP_LOSS_FALSE ELSE 0

\* slashVerifier with the attestation it punishes taken off the record.
slashVerifier_Once(sender, verifier, claimId) ==
    /\ sys = "contract"
    /\ IF SlashRevert(sender, verifier, claimId) # ""
       THEN UNCHANGED contractStorage
       ELSE /\ c_workers' = [c_workers EXCEPT ![verifier].reputationScore = Slashed(@)]
            /\ hasVerified' = hasVerified \ {<<claimId, verifier>>}
            /\ UNCHANGED <<registeredWorkers, claims, workerClaims,
                           totalWorkers, totalVerifiedClaims>>
    /\ UNCHANGED <<now, backendVars, sys>>

\* function slashVerifier(verifier, claimId)
slashVerifier(sender, verifier, claimId) ==
    /\ sys = "contract"
    /\ IF SlashRevert(sender, verifier, claimId) # ""
       THEN UNCHANGED contractStorage
       ELSE /\ c_workers' = [c_workers EXCEPT ![verifier].reputationScore = Slashed(@)]
            /\ UNCHANGED <<registeredWorkers, claims, workerClaims, hasVerified,
                           totalWorkers, totalVerifiedClaims>>
    /\ UNCHANGED <<now, backendVars, sys>>

\* The next block: block.timestamp grows from block to block.
Mine ==
    /\ sys = "contract"
    /\ now < MaxTime
    /\ now' = now + 1
    /\ UNCHANGED <<contractStorage, backendVars, sys>>

(***************************************************************************)
(* The programs from their initial states: the empty database the server   *)
(* creates its tables in, and the contract as constructed.                 *)
(***************************************************************************)
Init ==
    /\ sys \in {"backend", "contract"}
    /\ workers = <<>>
    /\ work_claims = <<>>
    /\ verifications = NoVerifications
    /\ anomaly_flags = <<>>
    /\ credit_reports = <<>>
    /\ clock = 0
    /\ res = NoRes
    /\ handlers = [h \in 1..MaxReq |-> Idle]
    /\ c_workers = [a \in Addrs |-> ZeroWorker]
    /\ registeredWorkers = {}
    /\ claims = <<>>
    /\ workerClaims = [a \in Addrs |-> <<>>]
    /\ hasVerified = {}
    /\ totalWorkers = 0
    /\ totalVerifiedClaims = 0
    /\ now = 1

\* Requests handled one at a time.  `today` is read only when the date is absent.
InitBackend == Init /\ sys = "backend"
InitContract == Init /\ sys = "contract"

BackendNext ==
    \/ \E complete \in BOOLEAN : Register(complete)
    \/ \E token \in Tokens, b \in SubmitBodies(HoursInputs) :
          \E today \in (IF b[3] = <<>> THEN Dates ELSE {1}) :
             Submit(token, b[1], b[2], b[3], today)
    \/ \E token \in Tokens, claim_id \in ClaimIds, gps \in GpsInputs :
          Verify(token, claim_id, gps)
    \/ \E token \in Tokens : Credit(token)

\* The successful submitClaim and slashVerifier calls so far.  Each slash took
\* REP_LOSS_FALSE from a score that stood at BASE_REP plus the verifier's gains.
Submits == SumOver(Addrs, [a \in Addrs |-> Len(workerClaims[a])])
Gains(a) == REP_GAIN_VERIFY * Cardinality({p \in hasVerified : p[2] = a})
Slashes ==
    SumOver(registeredWorkers,
            [a \in registeredWorkers |->
                (BASE_REP + Gains(a) - c_workers[a].reputationScore) \div REP_LOSS_FALSE])

ContractNext ==
    \/ \E sender \in Addrs, nameGiven \in BOOLEAN : registerWorker(sender, nameGiven)
    \/ \E sender \in Addrs, date \in Days, hoursX10 \in HoursX10Inputs,
          taskGiven \in BOOLEAN :
          /\ SubmitRevert(sender, date, hoursX10, taskGiven) = "" => Submits < MaxSubmits
          /\ submitClaim(sender, date, hoursX10, taskGiven)
    \/ \E sender \in Addrs, claimId \in ClaimIdInputs : verifyClaim(sender, claimId)
    \/ \E sender \in {owner, owner + 1}, verifier \in Addrs, claimId \in ClaimIdInputs :
          /\ SlashRevert(sender, verifier, claimId) = "" => Slashes < MaxSlashes
          /\ slashVerifier(sender, verifier, claimId)
    \/ Mine

Next == BackendNext \/ ContractNext

Spec == Init /\ [][Next]_vars

\* The backend alone and the contract alone.
SpecBackend == InitBackend /\ [][BackendNext]_vars
SpecContract == InitContract /\ [][ContractNext]_vars

(***************************************************************************)
(* The submit handler alone, bodies with negative hours among its inputs.  *)
(***************************************************************************)
NegativeHours == {-1}

HoursNext ==
    \/ \E complete \in BOOLEAN : Register(complete)
    \/ \E token \in Tokens, b \in SubmitBodies(HoursInputs \cup NegativeHours) :
          \E today \in (IF b[3] = <<>> THEN Dates ELSE {1}) :
             Submit(token, b[1], b[2], b[3], today)

SpecHours == InitBackend /\ [][HoursNext]_vars

(***************************************************************************)
(* One worker submitting a claim a day, of 1 or of 15 hours, the date left  *)
(* to the server (today): the histories that raise the anomaly signals.    *)
(***************************************************************************)
MaxHistory == 13       \* backend: claims of the daily submitter

DailyHours == {1, 15}

AnomalyNext ==
    \/ Len(workers) = 0 /\ Register(TRUE)
    \/ \E hours \in DailyHours :
          SubmitWithin(MaxHistory, <<1>>, hours, TRUE, <<>>, Len(work_claims) + 1)

SpecAnomaly == InitBackend /\ [][AnomalyNext]_vars

(***************************************************************************)
(* calcAnomalyScore on the histories of one worker: up to MaxScoreHistory   *)
(* claims on distinct days, in any order of submission, and one more       *)
(* submitted, its date given in the body.                                  *)
(***************************************************************************)
MaxScoreHistory == 3   \* backend: claims of a drawn history
MaxScoreDate == 4      \* backend: days of a drawn history

ScoreDates == 1..MaxScoreDate

HistoryRow(date, hours) ==
    [worker_id |-> 1, date |-> date, hours |-> hours, status |-> "pending",
     ipfs_hash |-> NULL, tx_hash |-> NULL, block_number |-> NULL, anomaly_score |-> 0,
     created_at |-> 0]

RECURSIVE Histories(_)
Histories(n) ==
    IF n = 0 THEN {<<>>}
    ELSE LET shorter == Histories(n - 1)
         IN shorter \cup
            {Append(h, HistoryRow(d, hours)) :
                h \in {g \in shorter : Len(g) = n - 1}, d \in ScoreDates, hours \in DailyHours}

InitScore ==
    /\ sys = "backend"
    /\ workers = <<NewWorker>>
    /\ work_claims \in {h \in Histories(MaxScoreHistory) :
                           \A i, j \in 1..Len(h) : h[i].date = h[j].date => i = j}
    /\ verifications = NoVerifications
    /\ anomaly_flags = <<>>
    /\ credit_reports = <<>>
    /\ clock = 0
    /\ res = NoRes
    /\ handlers = [h \in 1..MaxReq |-> Idle]
    /\ c_workers = [a \in Addrs |-> ZeroWorker]
    /\ registeredWorkers = {}
    /\ claims = <<>>
    /\ workerClaims = [a \in Addrs |-> <<>>]
    /\ hasVerified = {}
    /\ totalWorkers = 0
    /\ totalVerifiedClaims = 0
    /\ now = 1

ScoreNext ==
    \E hours \in DailyHours, date \in ScoreDates :
        SubmitWithin(MaxScoreHistory + 1, <<1>>, hours, TRUE, <<date>>, 1)

SpecScore == InitScore /\ [][ScoreNext]_vars

(***************************************************************************)
(* The server on a database that holds a claim written by another hand.    *)
(* work_claims.status is a TEXT column with no CHECK constraint, and the    *)
(* seeding script inserts claim rows with their status directly; the       *)
(* stored claim here is one of worker 1 with no attestation, its status     *)
(* 'pending' or 'rejected'.                                                *)
(***************************************************************************)
StoredStatuses == {"pending", "rejected"}

InitStored ==
    /\ sys = "backend"
    /\ workers = <<NewWorker, NewWorker>>
    /\ \E status \in StoredStatuses :
          work_claims = <<[worker_id |-> 1, date |-> 1, hours |-> 8, status |-> status,
                           ipfs_hash |-> NULL, tx_hash |-> NULL, block_number |-> NULL,
                           anomaly_score |-> 0, created_at |-> 0]>>
    /\ verifications = NoVerifications
    /\ anomaly_flags = <<>>
    /\ credit_reports = <<>>
    /\ clock = 0
    /\ res = NoRes
    /\ handlers = [h \in 1..MaxReq |-> Idle]
    /\ c_workers = [a \in Addrs |-> ZeroWorker]
    /\ registeredWorkers = {}
    /\ claims = <<>>
    /\ workerClaims = [a \in Addrs |-> <<>>]
    /\ hasVerified = {}
    /\ totalWorkers = 0
    /\ totalVerifiedClaims = 0
    /\ now = 1

SpecStored == InitStored /\ [][BackendNext]_vars

(***************************************************************************)
(* POST /api/verify, statement by statement.  The handler issues its       *)
(* statements one by one, each committed on its own (no transaction), so   *)
(* the statements of requests served by server processes that share pow.db *)
(* interleave.  Within one process a handler runs to completion (Verify).  *)
(***************************************************************************)
At(h, pc) == handlers[h].pc = pc
Goto(h, pc) == handlers' = [handlers EXCEPT ![h].pc = pc]
Done(h) == handlers' = [handlers EXCEPT ![h] = Idle]

\* verifyJWT; SELECT * FROM work_claims WHERE id = ?; the returns on that row
VerifyRead(h, token, claim_id, gps) ==
    /\ sys = "backend" /\ At(h, "idle")
    /\ IF ~verifyJWT(token)
       THEN res' = Reply(401, "No token") /\ UNCHANGED handlers
       ELSE IF ClaimRefusal(claim_id, token[1]) # NoRes
       THEN res' = ClaimRefusal(claim_id, token[1]) /\ UNCHANGED handlers
       ELSE /\ handlers' = [handlers EXCEPT ![h] =
                  [pc |-> "dup", claim_id |-> claim_id, verifierId |-> token[1],
                   gps |-> gps, worker_id |-> work_claims[claim_id].worker_id]]
            /\ UNCHANGED res
    /\ UNCHANGED <<backendTables, clock, contractVars, sys>>

\* SELECT id FROM verifications WHERE claim_id = ? AND verifier_id = ?; GPS check
VerifyDup(h) ==
    /\ sys = "backend" /\ At(h, "dup")
    /\ LET r == DupRefusal(handlers[h].claim_id, handlers[h].verifierId, handlers[h].gps)
       IN IF r # NoRes
          THEN res' = r /\ Done(h)
          ELSE Goto(h, "insert") /\ UNCHANGED res
    /\ UNCHANGED <<backendTables, clock, contractVars, sys>>

\* INSERT INTO verifications
VerifyInsert(h) ==
    /\ sys = "backend" /\ At(h, "insert")
    /\ verifications' = InsertVerification(verifications, handlers[h].claim_id,
                                           handlers[h].verifierId)
    /\ Goto(h, "depth")
    /\ UNCHANGED <<workers, work_claims, anomaly_flags, credit_reports, res,
                   clock, contractVars, sys>>

\* UPDATE workers SET verification_depth = verification_depth + 1
VerifyDepth(h) ==
    /\ sys = "backend" /\ At(h, "depth")
    /\ workers' = IncDepth(workers, handlers[h].verifierId)
    /\ Goto(h, "count")
    /\ UNCHANGED <<work_claims, verifications, anomaly_flags, credit_reports, res,
                   clock, contractVars, sys>>

\* SELECT COUNT(*) ...; if (verifCount >= 3)
VerifyCount(h) ==
    /\ sys = "backend" /\ At(h, "count")
    /\ LET verifCount == VerifCount(verifications, handlers[h].claim_id)
       IN IF QuorumReached(verifCount)
          THEN Goto(h, "sealClaim") /\ UNCHANGED res
          ELSE /\ res' = [Reply(200, "") EXCEPT !.verifications_so_far = verifCount]
               /\ Done(h)
    /\ UNCHANGED <<backendTables, clock, contractVars, sys>>

\* UPDATE work_claims SET status = 'verified', ...
VerifySealClaim(h) ==
    /\ sys = "backend" /\ At(h, "sealClaim")
    /\ work_claims' = SealClaim(work_claims, handlers[h].claim_id)
    /\ Goto(h, "sealWorker")
    /\ UNCHANGED <<workers, verifications, anomaly_flags, credit_reports, res,
                   clock, contractVars, sys>>

\* UPDATE workers SET total_days_worked = ..., reputation_score = ...; res.json
VerifySealWorker(h) ==
    /\ sys = "backend" /\ At(h, "sealWorker")
    /\ workers' = SealWorker(workers, handlers[h].worker_id)
    /\ res' = [Reply(200, "") EXCEPT !.claim_sealed = TRUE]
    /\ Done(h)
    /\ UNCHANGED <<work_claims, verifications, anomaly_flags, credit_reports,
                   clock, contractVars, sys>>

\* Registrations, a claim of worker 1 and concurrent attests of it.
RaceNext ==
    \/ Register(TRUE)
    \/ Submit(<<1>>, 8, TRUE, <<1>>, 1)
    \/ \E h \in 1..MaxReq, token \in Tokens, claim_id \in ClaimIds :
          VerifyRead(h, token, claim_id, <<>>)
    \/ \E h \in 1..MaxReq : VerifyDup(h)
    \/ \E h \in 1..MaxReq : VerifyInsert(h)
    \/ \E h \in 1..MaxReq : VerifyDepth(h)
    \/ \E h \in 1..MaxReq : VerifyCount(h)
    \/ \E h \in 1..MaxReq : VerifySealClaim(h)
    \/ \E h \in 1..MaxReq : VerifySealWorker(h)

SpecRace == InitBackend /\ [][RaceNext]_vars

(***************************************************************************)
(* The contract over a long run: one worker submits a claim a day, one     *)
(* verifies each, and the owner slashes the verifier at will.              *)
(***************************************************************************)
MaxLongRun == 102      \* contract: claims of the long run

\* The worker who submits and the worker who verifies, two addresses after the owner's.
Claimant == owner + 1
Verifier == owner + 2

LatestClaim == ClaimIdOf(Claimant, Len(workerClaims[Claimant]), now)

LongRunNext ==
    \/ \E sender \in {Claimant, Verifier} : registerWorker(sender, TRUE)
    \/ \E date \in 1..MaxLongRun :
          /\ date = Len(workerClaims[Claimant]) + 1
          /\ date > 1 => <<LatestClaim, Verifier>> \in hasVerified
          /\ submitClaim(Claimant, date, 80, TRUE)
    \/ verifyClaim(Verifier, LatestClaim)
    \/ slashVerifier(owner, Verifier, LatestClaim)

SpecLongRun == InitContract /\ [][LongRunNext]_vars

(***************************************************************************)
(* The long run with slashVerifier called by the owner and by another      *)
(* address, against the verifier and against the claimant.                 *)
(***************************************************************************)
SlashNext ==
    \/ LongRunNext
    \/ \E sender \in {owner, Claimant}, verifier \in {Claimant, Verifier} :
          slashVerifier(sender, verifier, LatestClaim)

SpecSlash == InitContract /\ [][SlashNext]_vars

(***************************************************************************)
(* Slashes after sealing: one claim of the claimant, verified by the other *)
(* addresses until it is sealed, its verifiers slashed any number of times *)
(* by the owner, and by the claimant, who is not the owner.                *)
(***************************************************************************)
SealedSlashNext ==
    \/ \E sender \in Addrs : registerWorker(sender, TRUE)
    \/ Len(workerClaims[Claimant]) = 0 /\ submitClaim(Claimant, 1, 80, TRUE)
    \/ \E sender \in Addrs : verifyClaim(sender, LatestClaim)
    \/ \E sender \in {owner, Claimant}, verifier \in Addrs :
          slashVerifier(sender, verifier, LatestClaim)

SpecSealedSlash == InitContract /\ [][SealedSlashNext]_vars

(***************************************************************************)
(* The scan after attestations of one verifier: worker 1 submits a claim a *)
(* day, worker 3 one claim at most, worker 2 attests any of them.          *)
(***************************************************************************)
MaxCliqueClaims == 6   \* backend: claims of the clique scenario

CliqueWorkers == 1..3

InitClique ==
    /\ sys = "backend"
    /\ workers = <<>>
    /\ work_claims = <<>>
    /\ verifications = [p \in (1..MaxCliqueClaims) \X WorkerIds |-> 0]
    /\ anomaly_flags = <<>>
    /\ credit_reports = <<>>
    /\ clock = 0
    /\ res = NoRes
    /\ handlers = [h \in 1..MaxReq |-> Idle]
    /\ c_workers = [a \in Addrs |-> ZeroWorker]
    /\ registeredWorkers = {}
    /\ claims = <<>>
    /\ workerClaims = [a \in Addrs |-> <<>>]
    /\ hasVerified = {}
    /\ totalWorkers = 0
    /\ totalVerifiedClaims = 0
    /\ now = 1

CliqueNext ==
    \/ Len(workers) < Cardinality(CliqueWorkers) /\ Register(TRUE)
    \/ \E w \in {1, 3} :
          /\ w = 3 => \A c \in 1..Len(work_claims) : work_claims[c].worker_id # 3
          /\ SubmitWithin(MaxCliqueClaims, <<w>>, 8, TRUE, <<>>, Len(work_claims) + 1)
    \/ \E claim_id \in 1..MaxCliqueClaims : Verify(<<2>>, claim_id, <<>>)
    \/ Scan(<<>>)

SpecClique == InitClique /\ [][CliqueNext]_vars

(***************************************************************************)
(* The scan after claims made seconds apart: one worker submits claims for *)
(* successive dates while the clock moves on in steps of ClockStep.        *)
(***************************************************************************)
MaxClusterClaims == 5  \* backend: claims of the cluster scenario
MaxClock == 90         \* backend: seconds the clock moves on
ClockStep == 30        \* backend: seconds of one step of the clock

ClusterNext ==
    \/ Len(workers) = 0 /\ Register(TRUE)
    \/ SubmitWithin(MaxClusterClaims, <<1>>, 8, TRUE, <<Len(work_claims) + 1>>, 1)
    \/ Tick(ClockStep, MaxClock)
    \/ Scan(<<>>)

SpecCluster == InitBackend /\ [][ClusterNext]_vars

(***************************************************************************)
(* The scan of the ledger of the daily submitter, with every region filter. *)
(***************************************************************************)
ScanNext ==
    \/ Len(workers) = 0 /\ \E location \in Locations : RegisterAt(TRUE, location)
    \/ \E hours \in DailyHours :
          SubmitWithin(MaxHistory, <<1>>, hours, TRUE, <<>>, Len(work_claims) + 1)
    \/ \E region \in RegionInputs : Scan(region)

SpecScan == InitBackend /\ [][ScanNext]_vars

(***************************************************************************)
(* More verifiers than the quorum: five workers, claims of workers 1 and   *)
(* 2 on one day, attested by any of the five.                              *)
(***************************************************************************)
MaxQuorumWorkers == 5  \* backend: workers of the quorum scenario
MaxQuorumClaims == 2   \* backend: claims of the quorum scenario

QuorumWorkers == 1..MaxQuorumWorkers

InitQuorum ==
    /\ sys = "backend"
    /\ workers = <<>>
    /\ work_claims = <<>>
    /\ verifications = [p \in (1..MaxQuorumClaims) \X QuorumWorkers |-> 0]
    /\ anomaly_flags = <<>>
    /\ credit_reports = <<>>
    /\ clock = 0
    /\ res = NoRes
    /\ handlers = [h \in 1..MaxReq |-> Idle]
    /\ c_workers = [a \in Addrs |-> ZeroWorker]
    /\ registeredWorkers = {}
    /\ claims = <<>>
    /\ workerClaims = [a \in Addrs |-> <<>>]
    /\ hasVerified = {}
    /\ totalWorkers = 0
    /\ totalVerifiedClaims = 0
    /\ now = 1

QuorumNext ==
    \/ RegisterWithin(MaxQuorumWorkers, TRUE, Kericho)
    \/ \E w \in {1, 2} : SubmitWithin(MaxQuorumClaims, <<w>>, 8, TRUE, <<>>, 1)
    \/ \E w \in QuorumWorkers, claim_id \in 1..MaxQuorumClaims :
          Verify(<<w>>, claim_id, <<>>)

SpecQuorum == InitQuorum /\ [][QuorumNext]_vars

(***************************************************************************)
(* calcAnomalyScore with more than ten rows to choose from: one worker      *)
(* submits claims with the date in the body, each for the earliest date    *)
(* claimed so far (refused) or for the day before it, so that the rows of   *)
(* the query are all later than its date.                                  *)
(***************************************************************************)
MaxBackDate == 12      \* backend: days of the backdated claims

Earliest ==
    IF work_claims = <<>> THEN MaxBackDate + 1 ELSE work_claims[Len(work_claims)].date

BackdatedNext ==
    \/ Len(workers) = 0 /\ Register(TRUE)
    \/ \E hours \in DailyHours, date \in {Earliest, Earliest - 1} \cap (1..MaxBackDate) :
          SubmitWithin(MaxBackDate, <<1>>, hours, TRUE, <<date>>, 1)

SpecBackdated == InitBackend /\ [][BackdatedNext]_vars

(***************************************************************************)
(* The credit report over a long tenure: worker 1 submits a claim a day,   *)
(* workers 2, 3 and 4 attest it in turn and seal it before the next is     *)
(* submitted; worker 1 asks for a report at any point.                     *)
(***************************************************************************)
MaxTenureDays == 33    \* backend: claims of the tenure scenario

InitTenure ==
    /\ sys = "backend"
    /\ workers = <<>>
    /\ work_claims = <<>>
    /\ verifications = [p \in (1..MaxTenureDays) \X WorkerIds |-> 0]
    /\ anomaly_flags = <<>>
    /\ credit_reports = <<>>
    /\ clock = 0
    /\ res = NoRes
    /\ handlers = [h \in 1..MaxReq |-> Idle]
    /\ c_workers = [a \in Addrs |-> ZeroWorker]
    /\ registeredWorkers = {}
    /\ claims = <<>>
    /\ workerClaims = [a \in Addrs |-> <<>>]
    /\ hasVerified = {}
    /\ totalWorkers = 0
    /\ totalVerifiedClaims = 0
    /\ now = 1

TenureNext ==
    \/ Len(workers) < MaxWorkers /\ Register(TRUE)
    \/ /\ Len(workers) = MaxWorkers
       /\ \A c \in 1..Len(work_claims) : work_claims[c].status = "verified"
       /\ SubmitWithin(MaxTenureDays, <<1>>, 8, TRUE, <<>>, Len(work_claims) + 1)
    \/ /\ Len(work_claims) > 0
       /\ LET c == Len(work_claims)
          IN /\ work_claims[c].status # "verified"
             /\ Verify(<<2 + VerifCount(verifications, c)>>, c, <<>>)
    \/ Credit(<<1>>)

SpecTenure == InitTenure /\ [][TenureNext]_vars

(***************************************************************************)
(* Properties of the backend, requests handled one at a time.              *)
(***************************************************************************)
ClaimRows == 1..Len(work_claims)
WorkerRows == 1..Len(workers)

\* The valid attestations of a claim, counted from the table.
Attestations(c) == SumOver(WorkerIds, [w \in WorkerIds |-> verifications[<<c, w>>]])

Unsettled(c) ==
    /\ work_claims[c].tx_hash = <<>>
    /\ work_claims[c].ipfs_hash = <<>>
    /\ work_claims[c].block_number = <<>>

\* The sealed claims a worker owns.
VerifiedClaimsOf(w) ==
    Cardinality({c \in ClaimRows : work_claims[c].worker_id = w
                                    /\ work_claims[c].status = "verified"})

\* A request answered with an error has written nothing.
RefusedWritesNothing == res'.status >= 400 => UNCHANGED backendTables

\* C1: every claim is 'verified' exactly when it has at least 3 valid attestations.
C1_QuorumExactness ==
    sys = "backend" =>
        \A c \in ClaimRows : (work_claims[c].status = "verified") <=> (Attestations(c) >= 3)

\* C1 witness: a sealed claim with its quorum beside a claim one attestation short.
C1_Witness ==
    /\ sys = "backend"
    /\ \E c \in ClaimRows : work_claims[c].status = "verified" /\ Attestations(c) >= 3
    /\ \E c \in ClaimRows : work_claims[c].status # "verified" /\ Attestations(c) = 2

\* C4: a claim with 1 or 2 attestations is PartiallyVerified and has no settlement
\* record.
C4_PartiallyVerified ==
    sys = "backend" =>
        \A c \in ClaimRows :
            Attestations(c) \in {1, 2} =>
                /\ work_claims[c].status \in {"PartiallyVerified", "partially_verified"}
                /\ Unsettled(c)

\* C8: every stored claim has 0 < hours <= 16, a submit with hours <= 0 or
\* hours > 16 being answered 400.
C8_HoursInRange ==
    /\ \A c \in ClaimRows : work_claims[c].hours > 0 /\ work_claims[c].hours <= 16
    /\ \A w \in WorkerRows, hours \in HoursInputs \cup NegativeHours :
          (hours <= 0 \/ hours > 16) => SubmitRefusal(<<w>>, hours, TRUE, <<>>, 1).status = 400

\* C6: at most one claim per (worker, date).  A submit whose fields are valid, for
\* a key that has a claim, is answered 409, and a request answered with an error
\* leaves the tables as they were.
C6_Unique ==
    \A i, j \in ClaimRows :
        (work_claims[i].worker_id = work_claims[j].worker_id
            /\ work_claims[i].date = work_claims[j].date) => i = j

C6_DuplicateRefused ==
    \A i \in ClaimRows, hours \in {8}, date \in DateInputs, today \in Dates :
        work_claims[i].date = (IF date = <<>> THEN today ELSE date[1]) =>
            SubmitRefusal(<<work_claims[i].worker_id>>, hours, TRUE, date, today)
                = Reply(409, "Claim already submitted for this date")

C6_OneClaimPerDay ==
    [](C6_Unique /\ C6_DuplicateRefused) /\ [][RefusedWritesNothing]_vars

\* C6 witness: a duplicate submit was answered 409; the key has its one claim.
C6_Witness ==
    /\ res.status = 409
    /\ res.error = "Claim already submitted for this date"
    /\ Len(work_claims) >= 1

\* C9: while a claim is not sealed, an attest by a verifier who has attested it is
\* answered 409, and a request answered with an error leaves the attestation
\* count, the status and the depth counters as they were; an attest by another
\* worker than the owner who has not attested it, within 500 m, is accepted, and
\* an accepted attest records one attestation of a verifier who had none.
C9_SecondRefused ==
    \A c \in ClaimRows, w \in WorkerRows, gps \in GpsInputs :
        (work_claims[c].status # "verified" /\ w # work_claims[c].worker_id) =>
            IF verifications[<<c, w>>] > 0
            THEN VerifyRefusal(<<w>>, c, gps) = Reply(409, "Already verified this claim")
            ELSE gps # <<501>> => VerifyRefusal(<<w>>, c, gps) = NoRes

C9_Recorded ==
    \A c \in ClaimIds, w \in WorkerIds :
        verifications'[<<c, w>>] # verifications[<<c, w>>] =>
            /\ verifications[<<c, w>>] = 0
            /\ verifications'[<<c, w>>] = 1
            /\ workers'[w].verification_depth = workers[w].verification_depth + 1
            /\ res'.status = 200

C9_DuplicateAttestation ==
    []C9_SecondRefused /\ [][RefusedWritesNothing /\ C9_Recorded]_vars

\* C9 witness: a second attest by the same verifier was answered 409.
C9_Witness ==
    /\ res.status = 409
    /\ res.error = "Already verified this claim"
    /\ \E c \in ClaimRows, w \in WorkerRows :
          verifications[<<c, w>>] = 1 /\ work_claims[c].status # "verified"

\* C14: a submit, attest or credit request answered with an error (401, 400, 404,
\* 409) leaves workers, work_claims, verifications, anomaly_flags and
\* credit_reports as they were.
C14_FailedRequestWritesNothing == [][RefusedWritesNothing]_vars

\* C14 witness: a credit request was refused for want of a verified claim, with
\* workers, a claim and attestations in the tables and no report written.
C14_Witness ==
    /\ res = Reply(400, "No verified claims on chain yet")
    /\ \E c \in ClaimRows : Attestations(c) = 2
    /\ credit_reports = <<>>

C16_ProximityCheck ==
    \A c \in ClaimRows, w \in WorkerRows, gps \in GpsInputs :
        LET r == VerifyRefusal(<<w>>, c, gps)
            otherwise == VerifyRefusal(<<w>>, c, <<>>)
        IN IF gps # <<>> /\ gps[1] > 500
           THEN /\ r.status >= 400
                /\ otherwise = NoRes => r = Reply(400, "GPS distance too large")
           ELSE r = otherwise

Stored == Len(work_claims') > Len(work_claims)
NewClaim == work_claims'[Len(work_claims')]

\* C18: a successful submit stores exactly one new claim, 'pending', with no
\* settlement record, its anomaly score calcAnomalyScore on the table before the
\* insertion; the first claim of a worker, of at most 14 hours, has score 0.
C18_StoredClaim ==
    Stored =>
        /\ work_claims' = Append(work_claims, NewClaim)
        /\ NewClaim.status = "pending"
        /\ NewClaim.tx_hash = NULL /\ NewClaim.ipfs_hash = NULL /\ NewClaim.block_number = NULL
        /\ NewClaim.anomaly_score
              = calcAnomalyScore(work_claims, NewClaim.worker_id, NewClaim.hours, NewClaim.date)
        /\ res'.status = 200

C18_FirstClaimScore ==
    \A c \in ClaimRows :
        (work_claims[c].hours <= 14
            /\ \A i \in 1..(c - 1) : work_claims[i].worker_id # work_claims[c].worker_id)
        => work_claims[c].anomaly_score = 0

C18_SubmitStores == []C18_FirstClaimScore /\ [][C18_StoredClaim]_vars

\* C18 witness: the fourth claim stored with score 0.65 (0.40 for its 15 hours,
\* 0.25 against the three claims before it), 'pending' and unsettled.
C18_Witness ==
    \E c \in ClaimRows :
        /\ c = 4 /\ work_claims[c].anomaly_score = 65
        /\ work_claims[c].status = "pending" /\ Unsettled(c)

\* The score as C19 states it, in hundredths: the claims within the trailing 7
\* (14) days of `date` are those dated from date - 7 (date - 14) up to date.
TrailingScore(wc, workerId, hours, date) ==
    LET within7 == {i \in 1..Len(wc) : wc[i].worker_id = workerId
                                       /\ wc[i].date >= date - 7 /\ wc[i].date <= date}
        Later(i, j) == wc[i].date > wc[j].date \/ (wc[i].date = wc[j].date /\ i < j)
        last10 == {j \in within7 : Cardinality({i \in within7 : Later(i, j)}) < 10}
        n == Cardinality(last10)
        total == SumOver(last10, [i \in last10 |-> wc[i].hours])
        same == Cardinality({i \in 1..Len(wc) : wc[i].worker_id = workerId
                                /\ wc[i].hours = hours
                                /\ wc[i].date >= date - 14 /\ wc[i].date <= date})
    IN Min(100, (IF hours > 14 THEN 40 ELSE 0) + (IF hours > 16 THEN 35 ELSE 0)
                + (IF n >= 3 /\ 10 * hours * n > 18 * total THEN 25 ELSE 0)
                + (IF same >= 5 THEN 20 ELSE 0))

\* C19: the score stored with a claim is min(1, 0.40 [hours > 14] + 0.35 [hours > 16]
\* + 0.25 [>= 3 claims among the last 10 within the trailing 7 days, hours > 1.8 x
\* their mean] + 0.20 [same hours >= 5 times within the trailing 14 days]), and
\* lies within [0, 1].
C19_ScoreFormula ==
    [][Stored =>
          /\ NewClaim.anomaly_score
                = TrailingScore(work_claims, NewClaim.worker_id, NewClaim.hours, NewClaim.date)
          /\ NewClaim.anomaly_score >= 0 /\ NewClaim.anomaly_score <= 100]_vars

\* C20: a successful submit emits one flag (entity type 'claim', kind
\* 'suspicious_hours', risk the claim's score, referencing the new claim) when the
\* score exceeds 0.65 and none otherwise.
C20_Flagged ==
    Stored =>
        anomaly_flags' =
            IF NewClaim.anomaly_score > 65
            THEN Append(anomaly_flags,
                        [flagged_entity |-> Len(work_claims'), entity_type |-> "claim",
                         anomaly_type |-> "suspicious_hours",
                         risk_score |-> NewClaim.anomaly_score])
            ELSE anomaly_flags

C20_FlagsOfClaims ==
    /\ Len(anomaly_flags) = Cardinality({c \in ClaimRows : work_claims[c].anomaly_score > 65})
    /\ \A c \in ClaimRows :
          work_claims[c].anomaly_score > 65 =>
              \E f \in 1..Len(anomaly_flags) :
                  /\ anomaly_flags[f].flagged_entity = c
                  /\ anomaly_flags[f].risk_score = work_claims[c].anomaly_score

C20_AnomalyFlag == []C20_FlagsOfClaims /\ [][C20_Flagged]_vars

\* C20 witness: a claim of score 0.85 with its flag beside a claim of score 0.65
\* with none.
C20_Witness ==
    /\ Len(anomaly_flags) = 1
    /\ \E c \in ClaimRows :
          work_claims[c].anomaly_score = 85 /\ anomaly_flags[1].flagged_entity = c
    /\ \E c \in ClaimRows : work_claims[c].anomaly_score = 65

\* C26: a credit request is refused for want of verified history exactly when the
\* worker owns no 'verified' claim, is answered with a report otherwise, and in
\* either case changes no stored record.
C26_PureCreditReport ==
    /\ [](\A w \in WorkerRows :
            (CreditRefusal(<<w>>) = Reply(400, "No verified claims on chain yet"))
                <=> (VerifiedClaimsOf(w) = 0))
    /\ [][UNCHANGED credit_reports]_vars

\* The rows ORDER BY date DESC LIMIT 10 returns are fixed by the table: each row
\* returned is of a later date than each row of the query left out.
DeterminedRecent(workerId, date) ==
    LET R == Recent(work_claims, workerId, date)
        T == RecentLimit(work_claims, workerId, date)
    IN /\ Cardinality(T) = Min(10, Cardinality(R))
       /\ \A i \in T, j \in R \ T : work_claims[i].date > work_claims[j].date

C21_Determined ==
    \A w \in WorkerRows, date \in 1..MaxBackDate : DeterminedRecent(w, date)

\* The step that invokes calcAnomalyScore stores the new claim, with the score of
\* the table as it was, and its flag, and changes no other record.
C21_Invocation ==
    Stored =>
        /\ NewClaim.anomaly_score
              = calcAnomalyScore(work_claims, NewClaim.worker_id, NewClaim.hours, NewClaim.date)
        /\ \A c \in ClaimRows : work_claims'[c] = work_claims[c]
        /\ Len(work_claims') = Len(work_claims) + 1
        /\ \A f \in 1..Len(anomaly_flags) : anomaly_flags'[f] = anomaly_flags[f]
        /\ \A f \in (Len(anomaly_flags) + 1)..Len(anomaly_flags') :
              anomaly_flags'[f].flagged_entity = Len(work_claims')
        /\ UNCHANGED <<workers, verifications, credit_reports>>

\* C21: calcAnomalyScore is a function of its arguments and the table (the rows
\* its queries return are fixed by the table), and invoking it changes no stored
\* record.
C21_Deterministic == []C21_Determined /\ [][C21_Invocation]_vars

\* C21 witness: the twelfth claim stored, scored against ten of the eleven rows
\* of its query.
C21_Witness ==
    /\ Len(work_claims) = 12
    /\ LET before == SubSeq(work_claims, 1, 11)
       IN /\ Cardinality(Recent(before, 1, work_claims[12].date)) = 11
          /\ Cardinality(RecentLimit(before, 1, work_claims[12].date)) = 10
          /\ work_claims[12].anomaly_score
                = calcAnomalyScore(before, 1, work_claims[12].hours, work_claims[12].date)

\* The report a credit request has just stored, and the worker it is about.
Reported == credit_reports' # credit_reports
Report == credit_reports'[Len(credit_reports')]

\* max(1, verifiedDays / 22), the quotient read exactly or as a whole number
TenureOf(months, days) ==
    IF days <= 22 THEN months = 1
    ELSE 22 * months = days \/ months = days \div 22

\* score = min(850, round(months*4.5 + min(avgPeers,10)*15 + min(weekly,40)*2.5
\* + 300)): s is the rounding of x when s <= x + 1/2 < s + 1, in units of 1/(2n)
ScoreOf(score, months, peers, weekly) ==
    LET n == peers[2]
        x2n == 9 * n * months + 30 * Min(peers[1], 10 * n)
               + 5 * Min(weekly[1], 40 * n) + 600 * n
    IN \E s \in 0..1000 :
          /\ 2 * n * s <= x2n + n /\ x2n + n < 2 * n * (s + 1)
          /\ score = Min(850, s)

\* C27: a credit report has tenureMonths = max(1, verifiedDays / 22), the score
\* of the formula and at most 850, the tier of the score, and the ceiling
\* round(score * tenureMonths * 2.8).
C27_Report ==
    Reported =>
        LET days == workers[Report.worker_id].total_days_worked
            months == Report.months_on_chain
        IN /\ TenureOf(months, days)
           /\ ScoreOf(Report.score, months, Report.avg_peers, Report.avg_weekly_hours)
           /\ Report.score <= 850
           /\ Report.tier = (IF Report.score > 720 THEN "PRIME"
                             ELSE IF Report.score > 580 THEN "STANDARD" ELSE "EMERGING")
           /\ 10 * Report.max_loan_usd <= 28 * Report.score * months + 5
           /\ 28 * Report.score * months + 5 < 10 * (Report.max_loan_usd + 1)

C27_CreditFormula == [][C27_Report]_vars

AttestationRows(c) ==
    LET rows == {p \in DOMAIN verifications : p[1] = c}
    IN SumOver(rows, [p \in rows |-> verifications[p]])

\* Every attest on a sealed claim, by any registered worker, is refused.
SealedRefused(c) ==
    \A w \in WorkerRows, gps \in GpsInputs : VerifyRefusal(<<w>>, c, gps).status >= 400

C31_Quorum ==
    \A c \in ClaimRows :
        /\ AttestationRows(c) <= 3
        /\ work_claims[c].status = "verified" => AttestationRows(c) = 3 /\ SealedRefused(c)

\* A row is added to verifications only for a claim that is not sealed.
C31_Recorded ==
    \A p \in DOMAIN verifications :
        verifications'[p] # verifications[p] => work_claims[p[1]].status # "verified"

\* C31: with requests handled one at a time a claim has at most 3 attestation
\* rows, a 'verified' claim exactly 3, and every attest on a sealed claim is
\* refused and records nothing.
C31_QuorumNotExceeded == []C31_Quorum /\ [][C31_Recorded /\ RefusedWritesNothing]_vars

\* C31 witness: a sealed claim with its 3 rows, a worker who is neither its owner
\* nor one of its verifiers, and an attest on a sealed claim just refused.
C31_Witness ==
    \E c \in ClaimRows, w \in WorkerRows :
        /\ work_claims[c].status = "verified" /\ AttestationRows(c) = 3
        /\ work_claims[c].worker_id # w /\ verifications[<<c, w>>] = 0
        /\ res = Reply(400, "Claim already fully verified")

\* The reply in `res` is that of a scan; the tables are as the scan read them.
ScanReply == res.status = 200 /\ res.scanned_at # <<>>

FlagsOf(type) == {k \in 1..Len(res.flags) : res.flags[k].type = type}

\* The owners of the claims v has attested, and v's attestation rows for owner o.
OwnersAttested(v) ==
    {work_claims[c].worker_id : c \in {d \in ClaimRows : verifications[<<d, v>>] > 0}}

AttestationsFor(v, o) ==
    SumOver({c \in ClaimRows : work_claims[c].worker_id = o},
            [c \in ClaimRows |-> verifications[<<c, v>>]])

\* C22: the scan reports a clique flag of score 0.87 for verifier v exactly when
\* v has attested claims of one owner only and at least five times; a verifier
\* of two or more owners is never flagged.
C22_CliqueFlag ==
    ScanReply =>
        \A v \in WorkerRows :
            /\ (\E k \in FlagsOf("clique") :
                    res.flags[k].entity = v /\ res.flags[k].score = 87)
                <=> (\E o \in WorkerRows :
                        OwnersAttested(v) = {o} /\ AttestationsFor(v, o) >= 5)
            /\ Cardinality(OwnersAttested(v)) >= 2 =>
                  \A k \in FlagsOf("clique") : res.flags[k].entity # v

\* Verifier 2 attested five claims, all of worker 1, and the scan flags it.
C22_Witness ==
    /\ ScanReply
    /\ OwnersAttested(2) = {1} /\ AttestationsFor(2, 1) = 5
    /\ \E k \in FlagsOf("clique") : res.flags[k].entity = 2 /\ res.flags[k].score = 87

\* Sets of four claims created less than 60 seconds apart.
Bursts ==
    {B \in SUBSET ClaimRows :
        /\ Cardinality(B) = 4
        /\ \A c, d \in B : work_claims[c].created_at - work_claims[d].created_at < 60}

\* C23: whenever four claims were created within the same 60-second window, the
\* scan reports a timestamp-clustering flag of score 0.71 for the minute of these
\* claims, carrying the number of claims of that minute.
C23_ClusterFlag ==
    ScanReply =>
        \A B \in Bursts :
            \E k \in FlagsOf("timestamp_cluster"), c \in B :
                /\ res.flags[k].score = 71
                /\ res.flags[k].entity = Minute(work_claims[c].created_at)
                /\ res.flags[k].n = ClusterCount(res.flags[k].entity)
                /\ res.flags[k].n >= 4

\* C24: in every scan reply, summary.high is the number of returned flags whose
\* score is above 0.7, and high + medium + low is the number of flags.
C24_SummaryByScore ==
    ScanReply =>
        /\ res.summary.high = Cardinality({k \in 1..Len(res.flags) : res.flags[k].score > 70})
        /\ res.summary.high + res.summary.medium + res.summary.low = Len(res.flags)
        /\ res.summary.total = Len(res.flags)
        /\ res.summary.medium >= 0 /\ res.summary.low >= 0

\* The reply of a scan of the tables as they are, whatever its filter.
ScanOfTables ==
    \E region \in RegionInputs :
        /\ ~Malformed(region)
        /\ res.flags = ScanFlags(region)
        /\ res.summary = Summary(ScanFlags(region))

\* C25: a scan changes no worker, claim, attestation or anomaly-flag record, and
\* its reply is the one a second scan of the same tables returns.
C25_ScanStep == res'.scanned_at # <<>> \/ res'.status = 500 => UNCHANGED backendTables

C25_ScanOnlyReads == [](ScanReply => ScanOfTables) /\ [][C25_ScanStep]_vars

\* A scan that returned a cluster flag and the flag stored at a submission.
C25_Witness ==
    /\ ScanReply
    /\ FlagsOf("timestamp_cluster") # {} /\ FlagsOf("suspicious_hours") # {}
    /\ Len(anomaly_flags) = 1

(***************************************************************************)
(* Properties of the backend, the statements of attests interleaved.       *)
(***************************************************************************)
\* C11: the attest that brings a claim's attestations to 3 seals it in that request:
\* status 'verified', tx_hash, ipfs_hash and block_number stamped, the owner's
\* total_days_worked one more and reputation min(100, old + 0.5), no other worker's
\* days or reputation changed; an owner with one sealed claim has 1 day and 50.5.
C11_Seals ==
    \A c \in ClaimRows :
        (VerifCount(verifications, c) < 3 /\ VerifCount(verifications', c) >= 3) =>
            LET o == work_claims[c].worker_id
            IN /\ work_claims'[c].status = "verified"
               /\ work_claims'[c].tx_hash # NULL
               /\ work_claims'[c].ipfs_hash # NULL
               /\ work_claims'[c].block_number # NULL
               /\ res'.status = 200 /\ res'.claim_sealed
               /\ workers'[o].total_days_worked = workers[o].total_days_worked + 1
               /\ workers'[o].reputation_score = Min(1000, workers[o].reputation_score + 5)
               /\ \A w \in WorkerRows \ {o} :
                     /\ workers'[w].total_days_worked = workers[w].total_days_worked
                     /\ workers'[w].reputation_score = workers[w].reputation_score

C11_FreshOwner ==
    \A w \in WorkerRows :
        VerifiedClaimsOf(w) = 1 =>
            workers[w].total_days_worked = 1 /\ workers[w].reputation_score = 505

C12_VerifierRewarded ==
    [][\A w \in WorkerRows :
          (\E c \in ClaimIds : verifications'[<<c, w>>] > verifications[<<c, w>>]) =>
              workers'[w].reputation_score = Min(1000, workers[w].reputation_score + 5)]_vars

C10_ReputationBounds ==
    \A a \in registeredWorkers :
        c_workers[a].reputationScore >= 0 /\ c_workers[a].reputationScore <= 10000

Range(f) == {f[i] : i \in DOMAIN f}

\* C7: at most one claim per (worker, date), a submitClaim for a date the worker
\* has a claim for being reverted.
C7_OneClaimPerDate ==
    /\ \A a, b \in DOMAIN claims :
          (claims[a].worker = claims[b].worker /\ claims[a].date = claims[b].date) => a = b
    /\ \A a \in DOMAIN claims :
          SubmitRevert(claims[a].worker, claims[a].date, 80, TRUE) # ""

\* enum ClaimStatus { Pending, PartiallyVerified, Verified, Rejected }
ClaimStatusValue(status) ==
    CASE status = "Pending" -> 0
      [] status = "PartiallyVerified" -> 1
      [] status = "Verified" -> 2
      [] status = "Rejected" -> 3

\* C13: in every step of the contract each claim's status stays or moves forward
\* along Pending -> PartiallyVerified -> Verified, a Verified claim keeps its
\* status, and a claim changes only in a step that records an attestation of it.
C13_StatusForward ==
    [][\A id \in DOMAIN claims :
          /\ ClaimStatusValue(claims'[id].status) >= ClaimStatusValue(claims[id].status)
          /\ claims[id].status = "Verified" => claims'[id].status = "Verified"
          /\ claims'[id] # claims[id] =>
                \E a \in Addrs : <<id, a>> \in hasVerified' \ hasVerified]_vars

\* C17: slashVerifier reverts unless the caller is the owner and the verifier has
\* verified the claim; a step that lowers a reputationScore lowers that of one
\* address, which has verified a claim, to max(0, old - 500), and nothing else
\* changes in it.
C17_RevertsUnlessOwnerAndVerified ==
    \A sender \in Addrs, verifier \in Addrs, claimId \in ClaimIdInputs :
        (SlashRevert(sender, verifier, claimId) = "")
            <=> (sender = owner /\ <<claimId, verifier>> \in hasVerified)

C17_Penalty ==
    \A v \in Addrs :
        c_workers'[v].reputationScore < c_workers[v].reputationScore =>
            /\ \E id \in DOMAIN claims : <<id, v>> \in hasVerified
            /\ c_workers'[v].reputationScore
                  = (IF c_workers[v].reputationScore - 500 > 0
                     THEN c_workers[v].reputationScore - 500 ELSE 0)
            /\ c_workers' = [c_workers EXCEPT ![v].reputationScore = c_workers'[v].reputationScore]
            /\ UNCHANGED <<registeredWorkers, claims, workerClaims, hasVerified,
                           totalWorkers, totalVerifiedClaims>>

C17_Slash == []C17_RevertsUnlessOwnerAndVerified /\ [][C17_Penalty]_vars

\* C17 witness: the verifier of a claim was slashed down to 0, from a score the
\* penalty exceeds (5050 after one verification, eleven slashes).
C17_Witness ==
    /\ c_workers[Verifier].reputationScore = 0
    /\ \E id \in DOMAIN claims : <<id, Verifier>> \in hasVerified

\* C32: verifyClaim reverts for every caller whose reputationScore is below 1000;
\* only a successful verifyClaim of the worker raises a registered worker's
\* score, so a score below 1000 stays below 1000 and the worker verifies no
\* claim again.
C32_LowReverts ==
    \A a \in Addrs, id \in ClaimIdInputs :
        c_workers[a].reputationScore < 1000 => VerifyRevert(a, id) # ""

C32_StaysLow ==
    \A a \in registeredWorkers :
        /\ c_workers[a].reputationScore < 1000 =>
              /\ c_workers'[a].reputationScore < 1000
              /\ \A id \in DOMAIN claims' : <<id, a>> \in hasVerified' => <<id, a>> \in hasVerified
        /\ c_workers'[a].reputationScore > c_workers[a].reputationScore =>
              \E id \in DOMAIN claims : <<id, a>> \in hasVerified' \ hasVerified

C32_LowReputationLocked == []C32_LowReverts /\ [][C32_StaysLow]_vars

\* C32 witness: the verifier, slashed below 1000, is refused on a claim it has
\* not verified, for its reputation.
C32_Witness ==
    /\ Verifier \in registeredWorkers
    /\ c_workers[Verifier].reputationScore < 1000
    /\ VerifyRevert(Verifier, LatestClaim) = "Reputation too low to verify"

\* A step that lowered v's score: a successful slashVerifier(v, .).  It leaves the
\* claims, the attestations on record and the counters as they were, and v's
\* attestations can be slashed again.
SlashFrame(v) ==
    /\ c_workers' = [c_workers EXCEPT ![v].reputationScore = c_workers'[v].reputationScore]
    /\ UNCHANGED <<claims, hasVerified, registeredWorkers, workerClaims, totalWorkers,
                   totalVerifiedClaims>>
    /\ \A id \in DOMAIN claims :
          /\ claims[id].status = "Verified" => claims'[id].status = "Verified"
          /\ <<id, v>> \in hasVerified => <<id, v>> \in hasVerified'

\* C33 as stated: a successful slashVerifier changes only the verifier's
\* reputationScore, and each slash of the same pair subtracts another 500.
C33_Subtracts500 ==
    \A v \in Addrs :
        c_workers'[v].reputationScore < c_workers[v].reputationScore =>
            /\ SlashFrame(v)
            /\ c_workers'[v].reputationScore = c_workers[v].reputationScore - 500

C33_SlashSubtracts == [][C33_Subtracts500]_vars

\* C33 amended: a successful slashVerifier changes only the verifier's
\* reputationScore, and each slash of the same pair subtracts another 500 from a
\* score above 500 and leaves 0 of a score of at most 500.
C33_SubtractsOrZero ==
    \A v \in Addrs :
        c_workers'[v].reputationScore < c_workers[v].reputationScore =>
            /\ SlashFrame(v)
            /\ c_workers[v].reputationScore > 500 =>
                  c_workers'[v].reputationScore = c_workers[v].reputationScore - 500
            /\ c_workers[v].reputationScore <= 500 => c_workers'[v].reputationScore = 0

\* A verifier on record stays open to slashing by the owner.
C33_SlashableAgain ==
    \A v \in Addrs, id \in DOMAIN claims :
        <<id, v>> \in hasVerified => SlashRevert(owner, v, id) = ""

C33_SlashFrame == []C33_SlashableAgain /\ [][C33_SubtractsOrZero]_vars

\* C33 witness: the claim is sealed and still Verified, one of its verifiers
\* slashed twice for it (5050 - 500 - 500).
C33_Witness ==
    /\ ClaimAt(LatestClaim).status = "Verified"
    /\ totalVerifiedClaims = 1
    /\ \E v \in Addrs :
          <<LatestClaim, v>> \in hasVerified /\ c_workers[v].reputationScore = 4050

\* C29: totalVerifiedClaims is the number of claims whose status is Verified, and
\* each worker's verifiedDays the number of that worker's claims whose status is
\* Verified.
C29_SealedOnce ==
    /\ totalVerifiedClaims
          = Cardinality({id \in DOMAIN claims : claims[id].status = "Verified"})
    /\ \A a \in Addrs :
          c_workers[a].verifiedDays
              = Cardinality({id \in DOMAIN claims :
                                claims[id].worker = a /\ claims[id].status = "Verified"})

(***************************************************************************)
(* Properties of both programs.                                            *)
(***************************************************************************)
\* C28: of the failure conditions of an attest that hold at once, the first in the
\* order not found, own claim, sealed, duplicate, too far is the one reported, by
\* the backend and by the contract: a verifier of a claim that is now sealed, who
\* attests it again, is told that it is sealed.
C28_ErrorOrder ==
    /\ \A c \in ClaimRows, w \in WorkerRows, gps \in GpsInputs :
          LET r == VerifyRefusal(<<w>>, c, gps)
          IN IF work_claims[c].worker_id = w THEN r = Reply(400, "Cannot verify own claim")
             ELSE IF work_claims[c].status = "verified"
                  THEN r = Reply(400, "Claim already fully verified")
             ELSE IF verifications[<<c, w>>] > 0
                  THEN r = Reply(409, "Already verified this claim")
             ELSE IF gps # <<>> /\ gps[1] > 500 THEN r = Reply(400, "GPS distance too large")
             ELSE r = NoRes
    /\ \A c \in ClaimIds \ ClaimRows, w \in WorkerRows, gps \in GpsInputs :
          VerifyRefusal(<<w>>, c, gps) = Reply(404, "Claim not found")
    /\ \A id \in DOMAIN claims, a \in registeredWorkers :
          LET r == VerifyRevert(a, id)
          IN IF claims[id].worker = a THEN r = "Cannot verify own claim"
             ELSE IF claims[id].status = "Verified" THEN r = "Already sealed"
             ELSE IF <<id, a>> \in hasVerified THEN r = "Already verified"
             ELSE TRUE

\* C5: no attestation names the owner of its claim as verifier, in the backend and
\* in the contract; an attest by the owner is refused (the backend answers 400,
\* the contract reverts), and what is refused records nothing.
C5_NoSelfAttestation ==
    /\ \A c \in ClaimRows : verifications[<<c, work_claims[c].worker_id>>] = 0
    /\ \A id \in DOMAIN claims :
          /\ claims[id].worker \notin Range(claims[id].verifiers)
          /\ <<id, claims[id].worker>> \notin hasVerified

C5_SelfAttestRefused ==
    /\ \A c \in ClaimRows, gps \in GpsInputs :
          VerifyRefusal(<<work_claims[c].worker_id>>, c, gps)
              = Reply(400, "Cannot verify own claim")
    /\ \A id \in DOMAIN claims :
          VerifyRevert(claims[id].worker, id) = "Cannot verify own claim"

C5_NoSelfVerification ==
    [](C5_NoSelfAttestation /\ C5_SelfAttestRefused) /\ [][RefusedWritesNothing]_vars

\* C5 witness: the backend refused an owner's attest on a claim another worker had
\* attested; the contract holds a claim with a verifier, none of them its owner.
C5_Witness ==
    \/ /\ sys = "backend"
       /\ res.error = "Cannot verify own claim"
       /\ \E c \in ClaimRows : Attestations(c) >= 1
    \/ /\ sys = "contract"
       /\ \E id \in DOMAIN claims : Len(claims[id].verifiers) >= 1

====
